---- MODULE Spec2Model ----
(***************************************************************************)
(* The LLM gateway: the front door (app/main.py, app/api/chat.py), the     *)
(* schema layer (app/schemas/chat.py) and the translation client           *)
(* (app/services/llm_client.py), as a state machine over inbound requests. *)
(***************************************************************************)
EXTENDS Integers, Sequences, FiniteSets, TLC

(* ------------------------------------------------------------------ *)
(* Bounds of the model                                                 *)
(* ------------------------------------------------------------------ *)

\* Largest RETRY_CONNECT_ERRORS the environment configures (the default is 2).
MaxBudget == 2

\* The inbound requests that exist in one behaviour.
Reqs == {"r1", "r2"}

(* ------------------------------------------------------------------ *)
(* JSON / Python values                                                *)
(* ------------------------------------------------------------------ *)

\* A scalar JSON value, or the absence of a key.  One record shape for all,
\* t in {"absent", "null", "int", "str", "bool", "float"}.
J(t, n, s) == [t |-> t, n |-> n, s |-> s]
JAbsent == J("absent", 0, "")
JNull == J("null", 0, "")
JInt(n) == J("int", n, "")
JStr(s) == J("str", 0, s)
JBool(b) == J("bool", IF b THEN 1 ELSE 0, "")
JFloat(s) == J("float", 0, s)

\* Python truthiness of x in `x or default` (a missing key reads as None).
Truthy(j) ==
    CASE j.t \in {"absent", "null"} -> FALSE
      [] j.t = "int" -> j.n # 0
      [] j.t = "bool" -> j.n # 0
      [] j.t = "str" -> j.s # ""
      [] OTHER -> TRUE

\* dict.get(key, default): the default replaces a missing key only, not a null.
Get(j, default) == IF j.t = "absent" THEN default ELSE j

\* `x or default`
Or(j, default) == IF Truthy(j) THEN j ELSE default

\* The strings int() parses.
StrToInt(s) == CASE s = "7" -> 7 [] s = "1700000500" -> 1700000500 [] OTHER -> 0
IsNumericStr(s) == s \in {"7", "1700000500"}

\* int(value): [ok, v]; not ok stands for the ValueError / TypeError it raises.
PyInt(j) ==
    CASE j.t = "int" -> [ok |-> TRUE, v |-> j.n]
      [] j.t = "bool" -> [ok |-> TRUE, v |-> j.n]
      [] j.t = "str" /\ IsNumericStr(j.s) -> [ok |-> TRUE, v |-> StrToInt(j.s)]
      [] OTHER -> [ok |-> FALSE, v |-> 0]

\* pydantic's validation of an `int` field (lax mode): ints and numeric strings.
ValidInt(j) == j.t = "int" \/ (j.t = "str" /\ IsNumericStr(j.s))
\* pydantic's validation of a `str` field: strings only.
ValidStr(j) == j.t = "str"

(* ------------------------------------------------------------------ *)
(* Schema layer (app/schemas/chat.py)                                  *)
(* ------------------------------------------------------------------ *)

Roles == {"system", "user", "assistant"}

\* The inbound JSON bodies of POST /v1/chat/completions.  messages is a list
\* of [role, content], or the key is absent.
PlainJson ==
    [model |-> JStr("m"), hasMessages |-> TRUE,
     messages |-> <<[role |-> JStr("user"), content |-> JStr("hello")]>>,
     stream |-> JAbsent, max_token |-> JAbsent, max_tokens |-> JAbsent,
     seed |-> JAbsent, user |-> JAbsent]

WithRole(json, role) ==
    [json EXCEPT !.messages = <<[role |-> role, content |-> JStr("hello")]>>]

WithoutMessages(json) == [json EXCEPT !.hasMessages = FALSE, !.messages = <<>>]

InboundBodies ==
    { PlainJson,
      [WithRole(PlainJson, JAbsent) EXCEPT !.stream = JBool(FALSE), !.max_token = JInt(64)],
      [WithRole(PlainJson, JStr("system")) EXCEPT !.max_token = JNull, !.seed = JInt(11)],
      [PlainJson EXCEPT !.max_tokens = JInt(32), !.user = JStr("u")],
      [PlainJson EXCEPT !.stream = JBool(TRUE)],
      WithoutMessages(PlainJson),
      WithoutMessages([PlainJson EXCEPT !.stream = JBool(TRUE)]),
      [PlainJson EXCEPT !.model = JAbsent],
      WithRole(PlainJson, JStr("tool")),
      WithRole([PlainJson EXCEPT !.stream = JBool(TRUE)], JStr("tool")) }

\* ChatMessage: role is one of the three literals (default "user").
ChatMessageValid(m) ==
    /\ m.role.t = "absent" \/ (m.role.t = "str" /\ m.role.s \in Roles)
    /\ ValidStr(m.content)

ChatMessage(m) ==
    [role |-> IF m.role.t = "absent" THEN "user" ELSE m.role.s, content |-> m.content.s]

\* ChatCompletionRequest validation: model and messages are required.
RequestValid(json) ==
    /\ ValidStr(json.model)
    /\ json.hasMessages
    /\ \A i \in 1..Len(json.messages) : ChatMessageValid(json.messages[i])
    /\ json.stream.t \in {"absent", "null", "bool"}
    /\ json.max_token.t \in {"absent", "null"} \/ ValidInt(json.max_token)
    /\ json.seed.t \in {"absent", "null"} \/ ValidInt(json.seed)
    /\ json.user.t \in {"absent", "null"} \/ ValidStr(json.user)

MaxTokenDefault == 256

\* The parsed request: exactly the fields the schema declares.  A key the
\* schema does not declare (max_tokens) is ignored.
ChatCompletionRequest(json) ==
    [model |-> json.model.s,
     messages |-> [i \in 1..Len(json.messages) |-> ChatMessage(json.messages[i])],
     temperature |-> JFloat("0.2"),
     top_p |-> JFloat("1.0"),
     max_token |-> Get(json.max_token, JInt(MaxTokenDefault)),
     seed |-> Get(json.seed, JNull),
     user |-> Get(json.user, JNull),
     stream |-> Get(json.stream, JBool(FALSE))]

NoRequest ==
    [model |-> "", messages |-> <<>>, temperature |-> JNull, top_p |-> JNull,
     max_token |-> JNull, seed |-> JNull, user |-> JNull, stream |-> JNull]

\* getattr(req, name, None) for name = "max_tokens" / "max_token".
GetAttrOrNone(req, name) == IF name \in DOMAIN req THEN req[name] ELSE JNull

(* ------------------------------------------------------------------ *)
(* Settings and client construction (settings.py, llm_client.py 41-82) *)
(* ------------------------------------------------------------------ *)

\* A base URL is scheme "://" rest, with `slashes` trailing "/" characters.
Url(scheme, rest, slashes) == [scheme |-> scheme, rest |-> rest, slashes |-> slashes]

BaseUrls ==
    { Url("ollama", "localhost:11434", 0),
      Url("OLLAMA", "localhost:11434", 1),
      Url("http", "localhost:8000", 0) }

\* Case folding of a scheme, for the IGNORECASE match.
Lower(scheme) ==
    CASE scheme \in {"OLLAMA", "Ollama", "ollama"} -> "ollama"
      [] scheme \in {"HTTP", "http"} -> "http"
      [] OTHER -> scheme

\* str.rstrip("/")
RStripSlash(url) == [url EXCEPT !.slashes = 0]

\* The match without re.IGNORECASE.
MatchesOllamaScheme_CaseSensitive(url) == url.scheme = "ollama"

\* _OLLAMA_SCHEME.match(url): ^ollama:// , ignoring case
MatchesOllamaScheme(url) == Lower(url.scheme) = "ollama"

\* _to_http_url: the matched prefix is replaced by "http://"
ToHttpUrl(url) == IF MatchesOllamaScheme(url) THEN [url EXCEPT !.scheme = "http"] ELSE url

\* LLMClient.__init__
NewClient(settings) ==
    LET raw == RStripSlash(settings.VLLM_BASE_URL)
        isOllama == MatchesOllamaScheme(raw)
    IN  [state |-> "open",
         id |-> 0,
         raw_base_url |-> raw,
         is_ollama |-> isOllama,
         base_url |-> IF isOllama THEN ToHttpUrl(raw) ELSE raw,
         retry_connect_errors |-> settings.RETRY_CONNECT_ERRORS]

NoClient ==
    [state |-> "none", id |-> 0, raw_base_url |-> Url("", "", 0), is_ollama |-> FALSE,
     base_url |-> Url("", "", 0), retry_connect_errors |-> 0]

(* ------------------------------------------------------------------ *)
(* Outbound payloads (llm_client.py 90-136)                            *)
(* ------------------------------------------------------------------ *)

NoOptions == [temperature |-> JAbsent, top_p |-> JAbsent, num_predict |-> JAbsent, seed |-> JAbsent]

NoPayload ==
    [model |-> "", messages |-> <<>>, stream |-> JAbsent, temperature |-> JAbsent,
     top_p |-> JAbsent, max_tokens |-> JAbsent, seed |-> JAbsent, user |-> JAbsent,
     hasOptions |-> FALSE, options |-> NoOptions]

\* A built payload, or the exception its construction raised.
Built(body) == [ok |-> TRUE, exc |-> "", body |-> body]
BuildRaises(exc) == [ok |-> FALSE, exc |-> exc, body |-> NoPayload]

\* _vllm_chat_completion, lines 91-102: the dict literal reads req.max_tokens,
\* an attribute the schema does not declare.
VllmBody(req) ==
    IF "max_tokens" \notin DOMAIN req
    THEN BuildRaises("AttributeError")
    ELSE Built([NoPayload EXCEPT
                  !.model = req.model,
                  !.messages = req.messages,
                  !.temperature = req.temperature,
                  !.top_p = req.top_p,
                  !.max_tokens = req.max_tokens,
                  !.stream = JBool(FALSE),
                  !.seed = IF req.seed.t # "null" THEN req.seed ELSE JAbsent,
                  !.user = IF req.user.t # "null" THEN req.user ELSE JAbsent])

\* _ollama_chat_completion, lines 112-136
OllamaBody(req) ==
    LET mt1 == GetAttrOrNone(req, "max_tokens")
        max_tokens == IF mt1.t = "null" THEN GetAttrOrNone(req, "max_token") ELSE mt1
        options ==
          [temperature |-> IF req.temperature.t # "null" THEN req.temperature ELSE JAbsent,
           top_p |-> IF req.top_p.t # "null" THEN req.top_p ELSE JAbsent,
           num_predict |-> IF max_tokens.t # "null" THEN max_tokens ELSE JAbsent,
           seed |-> IF req.seed.t # "null" THEN req.seed ELSE JAbsent]
    IN  Built([NoPayload EXCEPT
                 !.model = req.model,
                 !.messages = req.messages,
                 !.stream = JBool(FALSE),
                 !.hasOptions = TRUE,
                 !.options = options])

OllamaPath == "/api/chat"
OpenAIPath == "/v1/chat/completions"

(* ------------------------------------------------------------------ *)
(* Upstream response bodies                                            *)
(* ------------------------------------------------------------------ *)

\* A "message" value: t in {"absent", "null", "dict", "str"} ("str": a value
\* that is truthy and not a dict).
Msg(t, role, content) == [t |-> t, role |-> role, content |-> content]
NoMsg == Msg("absent", JAbsent, JAbsent)
AssistantMsg(text) == Msg("dict", JStr("assistant"), JStr(text))

\* One element of "choices".
Choice(index, message, finish_reason) ==
    [isdict |-> TRUE, index |-> index, message |-> message, finish_reason |-> finish_reason]
NotADictChoice == [isdict |-> FALSE, index |-> JAbsent, message |-> NoMsg, finish_reason |-> JAbsent]

\* "choices": t in {"absent", "null", "list", "str"}.
Choices(t, items) == [t |-> t, items |-> items]

\* "usage": t in {"absent", "null", "dict", "str"}.
UsageJson(t, p, c, total) ==
    [t |-> t, prompt_tokens |-> p, completion_tokens |-> c, total_tokens |-> total]

\* json: "object" (a JSON object), "array" (valid JSON, not an object),
\* "invalid" (not JSON at all, e.g. an empty or HTML body).
EmptyObject ==
    [json |-> "object", id |-> JAbsent, object |-> JAbsent, created |-> JAbsent,
     model |-> JAbsent, choices |-> Choices("absent", <<>>),
     usage |-> UsageJson("absent", JAbsent, JAbsent, JAbsent),
     message |-> NoMsg, prompt_eval_count |-> JAbsent, eval_count |-> JAbsent,
     created_at |-> JAbsent]

NotJson == [EmptyObject EXCEPT !.json = "invalid"]
JsonArray == [EmptyObject EXCEPT !.json = "array"]

\* A well-formed /api/chat response.
OllamaGood ==
    [EmptyObject EXCEPT !.model = JStr("llama3"),
                        !.created_at = JStr("2025-11-06T15:10:11Z"),
                        !.message = AssistantMsg("hi"),
                        !.prompt_eval_count = JInt(23),
                        !.eval_count = JInt(54)]

OllamaBodies ==
    { OllamaGood, EmptyObject, NotJson, JsonArray,
      [OllamaGood EXCEPT !.message = Msg("null", JAbsent, JAbsent)],
      [OllamaGood EXCEPT !.message = Msg("str", JAbsent, JAbsent)],
      [OllamaGood EXCEPT !.message = Msg("dict", JStr("assistant"), JNull)],
      [OllamaGood EXCEPT !.message = Msg("dict", JStr("assistant"), JInt(5))],
      [OllamaGood EXCEPT !.prompt_eval_count = JStr("7"), !.eval_count = JNull],
      [OllamaGood EXCEPT !.prompt_eval_count = JStr("many")],
      [OllamaGood EXCEPT !.eval_count = JInt(-1)],
      [OllamaGood EXCEPT !.created_at = JStr("2025-11-06T15:10:11+02:00"), !.model = JAbsent],
      [OllamaGood EXCEPT !.created_at = JStr("not-a-date")],
      [OllamaGood EXCEPT !.created_at = JInt(1700000500)],
      [OllamaGood EXCEPT !.model = JNull] }

\* A well-formed /v1/chat/completions response.
OpenAIGood ==
    [EmptyObject EXCEPT !.id = JStr("cmpl-1"),
                        !.object = JStr("chat.completion"),
                        !.created = JInt(1700000500),
                        !.model = JStr("gpt"),
                        !.choices = Choices("list", <<Choice(JInt(0), AssistantMsg("hi"), JStr("stop"))>>),
                        !.usage = UsageJson("dict", JInt(5), JInt(7), JInt(12))]

WithChoices(items) == [OpenAIGood EXCEPT !.choices = Choices("list", items)]

OpenAIBodies ==
    { OpenAIGood, EmptyObject, NotJson, JsonArray,
      [OpenAIGood EXCEPT !.choices = Choices("absent", <<>>)],
      [OpenAIGood EXCEPT !.choices = Choices("null", <<>>)],
      [OpenAIGood EXCEPT !.choices = Choices("str", <<>>)],
      WithChoices(<<>>),
      WithChoices(<<Choice(JInt(0), AssistantMsg("hi"), JStr("stop")),
                    Choice(JInt(1), AssistantMsg("ho"), JStr("length"))>>),
      WithChoices(<<Choice(JAbsent, Msg("dict", JNull, JNull), JNull)>>),
      WithChoices(<<Choice(JInt(3), NoMsg, JAbsent)>>),
      WithChoices(<<Choice(JNull, AssistantMsg("hi"), JStr("stop"))>>),
      WithChoices(<<Choice(JInt(0), Msg("dict", JStr("user"), JStr("hi")), JStr("stop"))>>),
      WithChoices(<<Choice(JInt(0), Msg("str", JAbsent, JAbsent), JStr("stop"))>>),
      WithChoices(<<Choice(JInt(0), AssistantMsg("hi"), JInt(5))>>),
      WithChoices(<<NotADictChoice>>),
      [OpenAIGood EXCEPT !.usage = UsageJson("absent", JAbsent, JAbsent, JAbsent)],
      [OpenAIGood EXCEPT !.usage = UsageJson("dict", JInt(5), JInt(7), JAbsent)],
      [OpenAIGood EXCEPT !.usage = UsageJson("dict", JInt(5), JInt(7), JNull)],
      [OpenAIGood EXCEPT !.usage = UsageJson("dict", JStr("many"), JInt(7), JInt(12))],
      [OpenAIGood EXCEPT !.usage = UsageJson("str", JAbsent, JAbsent, JAbsent)],
      [OpenAIGood EXCEPT !.id = JStr(""), !.created = JStr("1700000500")],
      [OpenAIGood EXCEPT !.id = JInt(9), !.created = JStr("yesterday")],
      [OpenAIGood EXCEPT !.object = JNull],
      [OpenAIGood EXCEPT !.model = JAbsent],
      [OpenAIGood EXCEPT !.model = JNull] }

\* What an upstream error response carries: JSON or text of some length.
ErrorBody(isJson, len) == [isJson |-> isJson, len |-> len]
TextLimit == 1000
ErrorBodies == { ErrorBody(TRUE, 20), ErrorBody(FALSE, 20), ErrorBody(FALSE, TextLimit + 1) }

\* _safe_json: the parsed body, or {"text": resp.text[:1000]}
SafeJson(eb) ==
    IF eb.isJson THEN [kind |-> "json", len |-> eb.len]
    ELSE [kind |-> "text", len |-> IF eb.len > TextLimit THEN TextLimit ELSE eb.len]
NoErrorBody == [kind |-> "none", len |-> 0]

\* The statuses an upstream answers with.
OkStatuses == {200, 201}
RedirectStatuses == {302}
ClientErrorStatuses == {400, 404, 499}
ServerErrorStatuses == {500, 503}
Statuses == OkStatuses \cup RedirectStatuses \cup ClientErrorStatuses \cup ServerErrorStatuses

\* The exceptions of httpx the retry loops catch, and one they do not.
RetriedErrors == {"ConnectTimeout", "ReadTimeout", "WriteTimeout", "ConnectError"}
OtherTransportErrors == {"ReadError"}

\* time.time() at the moment of normalization.
Clock == {1762500000, 1762500001}

(* ------------------------------------------------------------------ *)
(* Response normalization (llm_client.py 20-27, 155-188, 208-273)      *)
(* ------------------------------------------------------------------ *)

\* _gen_chat_id(): "chatcmpl-" and twelve hex digits
GenChatId == "chatcmpl-<hex>"

\* Usage(prompt_tokens=..., completion_tokens=..., total_tokens=...): the
\* schema's fields are prompt_token, completion_tokens, total_tokens; the
\* keyword prompt_tokens names no field and is ignored, so prompt_token keeps
\* its default.
Usage(prompt_tokens, completion_tokens, total_tokens) ==
    [prompt_token |-> 0, completion_tokens |-> completion_tokens, total_tokens |-> total_tokens]

ChatChoice(index, role, content, finish_reason) ==
    [index |-> index, role |-> role, content |-> content, finish_reason |-> finish_reason]

NoResponse ==
    [id |-> "", object |-> "", created |-> 0, model |-> "", choices |-> <<>>,
     usage |-> [prompt_token |-> 0, completion_tokens |-> 0, total_tokens |-> 0]]

\* The value of a normalization: a canonical response, or the exception raised.
Returns(resp) == [ok |-> TRUE, exc |-> "", resp |-> resp]
Raises(exc) == [ok |-> FALSE, exc |-> exc, resp |-> NoResponse]

\* _safe_created: int(value), or the current time when int() raises
SafeCreated(value, now) == IF PyInt(value).ok THEN PyInt(value).v ELSE now

\* datetime.fromisoformat(s) after "Z" -> "+00:00": the fields of the strings
\* it accepts (off: the UTC offset in minutes); fractions of a second are
\* dropped by int().
IsoFields(y, mo, d, h, mi, se, off) ==
    [ok |-> TRUE, y |-> y, mo |-> mo, d |-> d, h |-> h, mi |-> mi, se |-> se, off |-> off]
FromIsoFormat(s) ==
    CASE s = "2025-11-06T15:10:11Z" -> IsoFields(2025, 11, 6, 15, 10, 11, 0)
      [] s = "2025-11-06T15:10:11.123Z" -> IsoFields(2025, 11, 6, 15, 10, 11, 0)
      [] s = "2025-11-06T15:10:11+02:00" -> IsoFields(2025, 11, 6, 15, 10, 11, 120)
      [] s = "1970-01-01T00:00:00Z" -> IsoFields(1970, 1, 1, 0, 0, 0, 0)
      [] OTHER -> [ok |-> FALSE, y |-> 0, mo |-> 0, d |-> 0, h |-> 0, mi |-> 0, se |-> 0, off |-> 0]

\* Days from 1970-01-01 to the civil date y-mo-d.
DaysFromCivil(y, mo, d) ==
    LET yy == IF mo <= 2 THEN y - 1 ELSE y
        era == yy \div 400
        yoe == yy - era * 400
        mp == (mo + 9) % 12
        doy == (153 * mp + 2) \div 5 + d - 1
        doe == yoe * 365 + yoe \div 4 - yoe \div 100 + doy
    IN  era * 146097 + doe - 719468

\* The timestamp with the UTC offset of the string left out.
Timestamp_IgnoresOffset(f) == DaysFromCivil(f.y, f.mo, f.d) * 86400 + f.h * 3600 + f.mi * 60 + f.se

\* datetime.timestamp() of an aware datetime, in whole seconds
Timestamp(f) == DaysFromCivil(f.y, f.mo, f.d) * 86400 + f.h * 3600 + f.mi * 60 + f.se - f.off * 60

\* _iso8601_to_unix: [none, v]; none stands for the None it returns
Iso8601ToUnix(iso_str) ==
    IF ~Truthy(iso_str) \/ iso_str.t # "str"
    THEN [none |-> TRUE, v |-> 0]
    ELSE IF FromIsoFormat(iso_str.s).ok
         THEN [none |-> FALSE, v |-> Timestamp(FromIsoFormat(iso_str.s))]
         ELSE [none |-> TRUE, v |-> 0]

\* _ollama_chat_completion, lines 155-188
NormalizeOllama(data, req, now) ==
    IF data.json = "invalid" THEN Raises("JSONDecodeError")
    ELSE IF data.json # "object" THEN Raises("AttributeError")
    ELSE
      LET msgIsDict == data.message.t \in {"absent", "null", "dict"}
          rawContent == IF data.message.t = "dict" THEN data.message.content ELSE JAbsent
          content == IF msgIsDict THEN Or(Get(rawContent, JStr("")), JStr("")) ELSE JStr("")
          prompt == PyInt(Or(Get(data.prompt_eval_count, JInt(0)), JInt(0)))
          completion == PyInt(Or(Get(data.eval_count, JInt(0)), JInt(0)))
          created_ts == Iso8601ToUnix(Get(data.created_at, JNull))
          model == Get(data.model, JStr(req.model))
      IN  IF ~prompt.ok \/ ~completion.ok THEN Raises("ValueError")
          ELSE IF ~ValidStr(content) \/ ~ValidStr(model) THEN Raises("ValidationError")
          ELSE Returns(
                 [id |-> GenChatId,
                  object |-> "chat.completion",
                  created |-> IF created_ts.none THEN 0 ELSE created_ts.v,
                  model |-> model.s,
                  choices |-> <<ChatChoice(0, "assistant", content.s, "stop")>>,
                  usage |-> Usage(prompt.v, completion.v, prompt.v + completion.v)])

\* No substitute for missing choices.
DefaultRawChoices_Empty == <<>>

\* The choice the OpenAI-style loop substitutes for missing choices (line 221).
DefaultRawChoices == <<Choice(JInt(0), Msg("dict", JStr("assistant"), JStr("")), JStr("stop"))>>

\* One turn of the loop at lines 224-235 over raw choice c at position i (from 0).
ChoiceRole(c) ==
    Or(Get(IF c.message.t = "dict" THEN c.message.role ELSE JAbsent, JStr("assistant")), JStr("assistant"))
ChoiceContent(c) ==
    Or(Get(IF c.message.t = "dict" THEN c.message.content ELSE JAbsent, JStr("")), JStr(""))
ChoiceIndex(c, i) == Get(c.index, JInt(i))
ChoiceFinish(c) == Or(c.finish_reason, JStr("stop"))

ChoiceExc(c, i) ==
    CASE ~c.isdict -> "AttributeError"
      [] c.message.t = "str" -> "AttributeError"
      [] ChoiceRole(c) # JStr("assistant") \/ ~ValidStr(ChoiceContent(c)) -> "ValidationError"
      [] ~ValidInt(ChoiceIndex(c, i)) \/ ~ValidStr(ChoiceFinish(c)) -> "ValidationError"
      [] OTHER -> ""

NormalizeChoice(c, i) ==
    ChatChoice(PyInt(ChoiceIndex(c, i)).v, ChoiceRole(c).s, ChoiceContent(c).s, ChoiceFinish(c).s)

\* _post_openai_style, lines 208-256; body is the payload that was posted
NormalizeOpenAI(data, body, req, now) ==
    IF data.json = "invalid" THEN Raises("JSONDecodeError")
    ELSE IF data.json # "object" THEN Raises("AttributeError")
    ELSE
      LET resp_id == IF data.id.t = "str" /\ data.id.s # "" THEN data.id.s ELSE GenChatId
          created_val == SafeCreated(Get(data.created, JNull), now)
          listed == data.choices.t = "list" /\ Len(data.choices.items) > 0
          raw_choices == IF listed THEN data.choices.items ELSE DefaultRawChoices
          bad == { i \in 1..Len(raw_choices) : ChoiceExc(raw_choices[i], i - 1) # "" }
          firstBad == CHOOSE i \in bad : \A k \in bad : i <= k
          usageIsDict == data.usage.t \in {"absent", "null", "dict"}
          prompt == PyInt(Or(Get(data.usage.prompt_tokens, JInt(0)), JInt(0)))
          completion == PyInt(Or(Get(data.usage.completion_tokens, JInt(0)), JInt(0)))
          total == PyInt(Or(Get(data.usage.total_tokens, JInt(prompt.v + completion.v)), JInt(0)))
          object == Get(data.object, JStr("chat.completion"))
          model == Get(data.model, JStr(body.model))
      IN  IF bad # {} THEN Raises(ChoiceExc(raw_choices[firstBad], firstBad - 1))
          ELSE IF ~usageIsDict THEN Raises("AttributeError")
          ELSE IF ~prompt.ok \/ ~completion.ok \/ ~total.ok THEN Raises("ValueError")
          ELSE IF ~ValidStr(object) \/ ~ValidStr(model) THEN Raises("ValidationError")
          ELSE Returns(
                 [id |-> resp_id,
                  object |-> object.s,
                  created |-> created_val,
                  model |-> model.s,
                  choices |-> [i \in 1..Len(raw_choices) |-> NormalizeChoice(raw_choices[i], i - 1)],
                  usage |-> Usage(prompt.v, completion.v, total.v)])

(* ------------------------------------------------------------------ *)
(* Outcomes of chat_completion and replies of the front door           *)
(* ------------------------------------------------------------------ *)

NoOutcome ==
    [kind |-> "none", exc |-> "", attempts |-> 0, status_code |-> 0,
     body |-> NoErrorBody, response |-> NoResponse]

\* return ChatCompletionResponse(...)
Returned(resp) == [NoOutcome EXCEPT !.kind = "response", !.response = resp]
\* raise UpstreamTimeout(f"... after {attempt} attempts: {e}")
UpstreamTimeout(attempts) ==
    [NoOutcome EXCEPT !.kind = "timeout", !.exc = "UpstreamTimeout", !.attempts = attempts]
\* raise UpstreamHTTPError(status_code, body)
UpstreamHTTPError(status_code, body) ==
    [NoOutcome EXCEPT !.kind = "http_error", !.exc = "UpstreamHTTPError",
                      !.status_code = status_code, !.body = body]
\* any other exception leaving the call
Untyped(exc) == [NoOutcome EXCEPT !.kind = "untyped", !.exc = exc]

\* A reply of the front door.  type, request_id: "" when the body has no such key.
NoReply ==
    [status |-> 0, type |-> "", message |-> NoErrorBody, attempts |-> 0,
     request_id |-> "", response |-> NoResponse]

HTTPException(status, type, message, request_id) ==
    [NoReply EXCEPT !.status = status, !.type = type, !.message = message,
                    !.request_id = request_id]

\* getattr(request.state, "request_id", "-"); rid = "" when nothing attached one
RequestIdOf(rid) == IF rid = "" THEN "-" ELSE rid

\* The handler with the 4xx class test taking 500 in.
HandlerReply_WideClientClass(outcome, rid) ==
    CASE outcome.kind = "response" ->
           [NoReply EXCEPT !.status = 200, !.response = outcome.response]
      [] outcome.kind = "timeout" ->
           [HTTPException(504, "timeout", [kind |-> "str(e)", len |-> 0], RequestIdOf(rid))
              EXCEPT !.attempts = outcome.attempts]
      [] outcome.kind = "http_error" ->
           IF 400 <= outcome.status_code /\ outcome.status_code <= 500
           THEN HTTPException(400, "upstream_4xx", outcome.body, RequestIdOf(rid))
           ELSE HTTPException(502, "upstream_5xx", outcome.body, RequestIdOf(rid))
      [] OTHER -> [NoReply EXCEPT !.status = 500]

\* chat_completions, lines 21-38: what the handler answers for an outcome of
\* llm_client.chat_completion.  An exception no clause names leaves the
\* handler and becomes the framework's 500.
HandlerReply(outcome, rid) ==
    CASE outcome.kind = "response" ->
           [NoReply EXCEPT !.status = 200, !.response = outcome.response]
      [] outcome.kind = "timeout" ->
           [HTTPException(504, "timeout", [kind |-> "str(e)", len |-> 0], RequestIdOf(rid))
              EXCEPT !.attempts = outcome.attempts]
      [] outcome.kind = "http_error" ->
           IF 400 <= outcome.status_code /\ outcome.status_code < 500
           THEN HTTPException(400, "upstream_4xx", outcome.body, RequestIdOf(rid))
           ELSE HTTPException(502, "upstream_5xx", outcome.body, RequestIdOf(rid))
      [] OTHER -> [NoReply EXCEPT !.status = 500]

\* The routes of an application: the one get_app builds (main.py 11-33), and
\* one that includes the chat router (chat.py 6, 12).
Routes(app) ==
    CASE app = "get_app" -> { <<"GET", "/healthcheck">>, <<"GET", "/">> }
      [] app = "chat_router" -> { <<"POST", "/v1/chat/completions">> }
      [] OTHER -> {}

Apps == {"get_app", "chat_router"}

\* Whether RequestIDMiddleware runs in front of the route: get_app installs
\* CORSMiddleware only (main.py 17-23); another application may install it.
RequestIdAttached(app) == IF app = "get_app" THEN {FALSE} ELSE BOOLEAN

\* A request object with a max_tokens attribute beside the schema's fields
\* (what getattr(req, "max_tokens", None) at line 120 provides for).
WithMaxTokens(req, v) ==
    [f \in DOMAIN req \cup {"max_tokens"} |-> IF f = "max_tokens" THEN v ELSE req[f]]

\* The request objects a caller of LLMClient.chat_completion passes directly.
DirectRequests ==
    { ChatCompletionRequest(PlainJson),
      WithMaxTokens(ChatCompletionRequest(PlainJson), JInt(32)),
      WithMaxTokens(ChatCompletionRequest([PlainJson EXCEPT !.max_token = JInt(64)]), JNull) }

(* ------------------------------------------------------------------ *)
(* State                                                               *)
(* ------------------------------------------------------------------ *)

VARIABLES
    env,       \* the process environment Settings() reads
    scenario,  \* what the behaviour exercises: one request, or concurrent ones
    constructed, \* how many LLMClient objects have been constructed so far
    pc,        \* where each request's handling stands
    entry,     \* how the request entered: an application, or a direct call
    inbound,   \* the inbound JSON body
    rid,       \* request.state.request_id ("" when none is attached)
    req,       \* the ChatCompletionRequest
    client,    \* the LLMClient of the request
    wire,      \* the payload posted upstream
    path,      \* the path posted to
    attempt,   \* the retry loop's attempt counter
    log,       \* what the client did, in order
    resp,      \* the upstream response last received
    outcome,   \* how chat_completion ended
    reply      \* the front door's reply

vars == <<env, scenario, constructed, pc, entry, inbound, rid, req, client, wire, path, attempt, log, resp, outcome, reply>>

Event(ev, n) == [ev |-> ev, n |-> n, path |-> ""]
\* A POST of the client: the attempt counter at the time and the path posted to.
PostEvent(n, p) == [ev |-> "post", n |-> n, path |-> p]

NoUpstream == [status |-> 0, data |-> EmptyObject, error |-> ErrorBody(FALSE, 0)]

\* One request at a time is exercised with every input of the model;
\* concurrent requests are exercised with the principal inputs.
Scenarios == {"single", "concurrent"}
Active(sc) == IF sc = "single" THEN {"r1"} ELSE Reqs
AppsOf(sc) == IF sc = "single" THEN Apps ELSE {"chat_router"}
InboundOf(sc) ==
    IF sc = "single" THEN InboundBodies ELSE {PlainJson, [PlainJson EXCEPT !.stream = JBool(TRUE)]}
DirectOf(sc) ==
    IF sc = "single" THEN DirectRequests
    ELSE {WithMaxTokens(ChatCompletionRequest(PlainJson), JInt(32))}
StatusesOf(sc) == IF sc = "single" THEN Statuses ELSE {200, 404, 503}
ErrorsOf(sc) == IF sc = "single" THEN ErrorBodies ELSE {ErrorBody(TRUE, 20)}
ClockOf(sc) == IF sc = "single" THEN Clock ELSE {1762500000}

\* No request has arrived and no client exists.
Idle ==
    /\ env \in [VLLM_BASE_URL : BaseUrls, RETRY_CONNECT_ERRORS : 0..MaxBudget]
    /\ constructed = 0
    /\ pc = [r \in Reqs |-> "idle"]
    /\ entry = [r \in Reqs |-> ""]
    /\ inbound = [r \in Reqs |-> PlainJson]
    /\ rid = [r \in Reqs |-> ""]
    /\ req = [r \in Reqs |-> NoRequest]
    /\ client = [r \in Reqs |-> NoClient]
    /\ wire = [r \in Reqs |-> NoPayload]
    /\ path = [r \in Reqs |-> ""]
    /\ attempt = [r \in Reqs |-> 0]
    /\ log = [r \in Reqs |-> <<>>]
    /\ resp = [r \in Reqs |-> NoUpstream]
    /\ outcome = [r \in Reqs |-> NoOutcome]
    /\ reply = [r \in Reqs |-> NoReply]

Init == scenario = "single" /\ Idle

InitConcurrent == scenario = "concurrent" /\ Idle

(* ------------------------------------------------------------------ *)
(* The front door (main.py, chat.py)                                   *)
(* ------------------------------------------------------------------ *)

\* The dependency that shares one client object among all requests.
GetLlmClient_Shared(settings, n) == [NewClient(settings) EXCEPT !.id = 1]

\* get_llm_client (chat.py 8-10): LLMClient(Settings()), a new object at every
\* call; the n objects constructed before it are numbered 1..n.
GetLlmClient(settings, n) == [NewClient(settings) EXCEPT !.id = n + 1]

\* aclose() reaching the transports of all clients.
Aclose_EveryClient(clients, r) ==
    [q \in Reqs |-> IF clients[q].state = "open" THEN [clients[q] EXCEPT !.state = "closed"]
                    ELSE clients[q]]

\* LLMClient.aclose (llm_client.py 81-82): closes the transport of this client.
Aclose(clients, r) == [clients EXCEPT ![r].state = "closed"]

\* A client sends POST /v1/chat/completions to an application.
Arrive(r) ==
    /\ pc[r] = "idle"
    /\ r \in Active(scenario)
    /\ \E app \in AppsOf(scenario), json \in InboundOf(scenario) :
         \E mw \in RequestIdAttached(app) :
           /\ entry' = [entry EXCEPT ![r] = app]
           /\ inbound' = [inbound EXCEPT ![r] = json]
           /\ rid' = [rid EXCEPT ![r] = IF mw THEN "uuid4" ELSE ""]
    /\ pc' = [pc EXCEPT ![r] = "received"]
    /\ UNCHANGED <<env, scenario, constructed, req, client, wire, path, attempt, log, resp, outcome, reply>>

\* The application looks the route up; no route answers 404.
Route(r) ==
    /\ pc[r] = "received"
    /\ IF <<"POST", "/v1/chat/completions">> \in Routes(entry[r])
       THEN /\ pc' = [pc EXCEPT ![r] = "routed"]
            /\ UNCHANGED reply
       ELSE /\ pc' = [pc EXCEPT ![r] = "done"]
            /\ reply' = [reply EXCEPT ![r] = [NoReply EXCEPT !.status = 404]]
    /\ UNCHANGED <<env, scenario, constructed, entry, inbound, rid, req, client, wire, path, attempt, log, resp, outcome>>

\* The route's parameters are resolved: Depends(get_llm_client) constructs the
\* client from Settings(), and the body is validated against the schema; an
\* invalid body answers 422 and the handler is not called.
Depends(r) ==
    /\ pc[r] = "routed"
    /\ client' = [client EXCEPT ![r] = GetLlmClient(env, constructed)]
    /\ constructed' = constructed + 1
    /\ log' = [log EXCEPT ![r] = Append(@, Event("construct", 0))]
    /\ IF RequestValid(inbound[r])
       THEN /\ req' = [req EXCEPT ![r] = ChatCompletionRequest(inbound[r])]
            /\ pc' = [pc EXCEPT ![r] = "handler"]
            /\ UNCHANGED reply
       ELSE /\ pc' = [pc EXCEPT ![r] = "done"]
            /\ reply' = [reply EXCEPT ![r] = [NoReply EXCEPT !.status = 422]]
            /\ UNCHANGED req
    /\ UNCHANGED <<env, scenario, entry, inbound, rid, wire, path, attempt, resp, outcome>>

\* chat_completions, lines 18-21: stream=true is refused before the try block.
Handler(r) ==
    /\ pc[r] = "handler"
    /\ IF Truthy(req[r].stream)
       THEN /\ reply' = [reply EXCEPT ![r] =
                           [NoReply EXCEPT !.status = 400, !.type = "bad_request",
                                           !.message = [kind |-> "stream=true not supported yet", len |-> 0]]]
            /\ pc' = [pc EXCEPT ![r] = "done"]
       ELSE /\ pc' = [pc EXCEPT ![r] = "call"]
            /\ UNCHANGED reply
    /\ UNCHANGED <<env, scenario, constructed, entry, inbound, rid, req, client, wire, path, attempt, log, resp, outcome>>

\* chat_completions, lines 23-41: the outcome of chat_completion is answered,
\* and the finally clause closes the client.
Finish(r) ==
    /\ pc[r] = "ended"
    /\ entry[r] \in Apps
    /\ reply' = [reply EXCEPT ![r] = HandlerReply(outcome[r], rid[r])]
    /\ client' = Aclose(client, r)
    /\ log' = [log EXCEPT ![r] = Append(@, Event("aclose", 0))]
    /\ pc' = [pc EXCEPT ![r] = "done"]
    /\ UNCHANGED <<env, scenario, constructed, entry, inbound, rid, req, wire, path, attempt, resp, outcome>>

(* ------------------------------------------------------------------ *)
(* The translation client (llm_client.py 84-256)                       *)
(* ------------------------------------------------------------------ *)

\* A caller constructs a client and awaits chat_completion on a request object
\* of its own.
DirectCall(r) ==
    /\ pc[r] = "idle"
    /\ r \in Active(scenario)
    /\ \E q \in DirectOf(scenario) : req' = [req EXCEPT ![r] = q]
    /\ entry' = [entry EXCEPT ![r] = "direct"]
    /\ client' = [client EXCEPT ![r] = [NewClient(env) EXCEPT !.id = constructed + 1]]
    /\ constructed' = constructed + 1
    /\ log' = [log EXCEPT ![r] = Append(@, Event("construct", 0))]
    /\ pc' = [pc EXCEPT ![r] = "call"]
    /\ UNCHANGED <<env, scenario, inbound, rid, wire, path, attempt, resp, outcome, reply>>

\* chat_completion: the codec is chosen by is_ollama and the payload built.
ChatCompletion(r) ==
    /\ pc[r] = "call"
    /\ LET built == IF client[r].is_ollama THEN OllamaBody(req[r]) ELSE VllmBody(req[r])
       IN  IF built.ok
           THEN /\ wire' = [wire EXCEPT ![r] = built.body]
                /\ path' = [path EXCEPT ![r] = IF client[r].is_ollama THEN OllamaPath ELSE OpenAIPath]
                /\ attempt' = [attempt EXCEPT ![r] = 0]
                /\ pc' = [pc EXCEPT ![r] = "post"]
                /\ UNCHANGED outcome
           ELSE /\ outcome' = [outcome EXCEPT ![r] = Untyped(built.exc)]
                /\ pc' = [pc EXCEPT ![r] = "ended"]
                /\ UNCHANGED <<wire, path, attempt>>
    /\ UNCHANGED <<env, scenario, constructed, entry, inbound, rid, req, client, log, resp, reply>>

\* await self._client.post(path, json=body)
Post(r) ==
    /\ pc[r] = "post"
    /\ log' = [log EXCEPT ![r] = Append(@, PostEvent(attempt[r], path[r]))]
    /\ pc' = [pc EXCEPT ![r] = "awaiting"]
    /\ UNCHANGED <<env, scenario, constructed, entry, inbound, rid, req, client, wire, path, attempt, resp, outcome, reply>>

\* The except clause with the budget test off by one (attempt >= budget).
RetryOrGiveUp_OffByOne(r, n) ==
    IF n >= client[r].retry_connect_errors
    THEN /\ outcome' = [outcome EXCEPT ![r] = UpstreamTimeout(n)]
         /\ log' = [log EXCEPT ![r] = Append(@, Event("fail", n))]
         /\ pc' = [pc EXCEPT ![r] = "ended"]
    ELSE /\ log' = [log EXCEPT ![r] = @ \o <<Event("fail", n), Event("sleep", 2 * n)>>]
         /\ pc' = [pc EXCEPT ![r] = "sleeping"]
         /\ UNCHANGED outcome

\* The except clause sleeping the same 0.2 s before every retry.
RetryOrGiveUp_ConstantDelay(r, n) ==
    IF n > client[r].retry_connect_errors
    THEN /\ outcome' = [outcome EXCEPT ![r] = UpstreamTimeout(n)]
         /\ log' = [log EXCEPT ![r] = Append(@, Event("fail", n))]
         /\ pc' = [pc EXCEPT ![r] = "ended"]
    ELSE /\ log' = [log EXCEPT ![r] = @ \o <<Event("fail", n), Event("sleep", 2)>>]
         /\ pc' = [pc EXCEPT ![r] = "sleeping"]
         /\ UNCHANGED outcome

\* The except clause allowing one attempt more than the budget.
RetryOrGiveUp_OneMoreAttempt(r, n) ==
    IF n > client[r].retry_connect_errors + 1
    THEN /\ outcome' = [outcome EXCEPT ![r] = UpstreamTimeout(n)]
         /\ log' = [log EXCEPT ![r] = Append(@, Event("fail", n))]
         /\ pc' = [pc EXCEPT ![r] = "ended"]
    ELSE /\ log' = [log EXCEPT ![r] = @ \o <<Event("fail", n), Event("sleep", 2 * n)>>]
         /\ pc' = [pc EXCEPT ![r] = "sleeping"]
         /\ UNCHANGED outcome

\* The except clause (lines 143-148, 196-201): one of the four caught errors.
RetryOrGiveUp(r, n) ==
    IF n > client[r].retry_connect_errors
    THEN /\ outcome' = [outcome EXCEPT ![r] = UpstreamTimeout(n)]
         /\ log' = [log EXCEPT ![r] = Append(@, Event("fail", n))]
         /\ pc' = [pc EXCEPT ![r] = "ended"]
    ELSE /\ log' = [log EXCEPT ![r] = @ \o <<Event("fail", n), Event("sleep", 2 * n)>>]
         /\ pc' = [pc EXCEPT ![r] = "sleeping"]
         /\ UNCHANGED outcome

PostFails(r) ==
    /\ pc[r] = "awaiting"
    /\ \E e \in RetriedErrors :
         /\ attempt' = [attempt EXCEPT ![r] = @ + 1]
         /\ RetryOrGiveUp(r, attempt[r] + 1)
    /\ UNCHANGED <<env, scenario, constructed, entry, inbound, rid, req, client, wire, path, resp, reply>>

\* A transport error the except clause does not name leaves the call.
PostBreaks(r) ==
    /\ pc[r] = "awaiting"
    /\ \E e \in OtherTransportErrors :
         /\ outcome' = [outcome EXCEPT ![r] = Untyped(e)]
         /\ log' = [log EXCEPT ![r] = Append(@, Event("break", 0))]
    /\ pc' = [pc EXCEPT ![r] = "ended"]
    /\ UNCHANGED <<env, scenario, constructed, entry, inbound, rid, req, client, wire, path, attempt, resp, reply>>

\* asyncio.sleep(0.2 * attempt) is over (the delay is logged in tenths of a second).
Wake(r) ==
    /\ pc[r] = "sleeping"
    /\ log' = [log EXCEPT ![r] = Append(@, Event("wake", 0))]
    /\ pc' = [pc EXCEPT ![r] = "post"]
    /\ UNCHANGED <<env, scenario, constructed, entry, inbound, rid, req, client, wire, path, attempt, resp, outcome, reply>>

\* The status checks without the test for 4xx.
RaisesForStatus_Only5xx(status) == status >= 500

\* The status checks at lines 150-153 and 203-206.
RaisesForStatus(status) == status >= 500 \/ status >= 400

\* What the bodies of a 2xx answer of each upstream look like.
BodiesOf(cl, sc) ==
    IF sc = "single" THEN (IF cl.is_ollama THEN OllamaBodies ELSE OpenAIBodies)
    ELSE {IF cl.is_ollama THEN OllamaGood ELSE OpenAIGood}

\* The rest of the loop body once a response r is in hand.
AfterResponse(cl, status, data, error, body, q, now) ==
    IF RaisesForStatus(status)
    THEN UpstreamHTTPError(status, SafeJson(error))
    ELSE LET n == IF cl.is_ollama THEN NormalizeOllama(data, q, now)
                  ELSE NormalizeOpenAI(data, body, q, now)
         IN  IF n.ok THEN Returned(n.resp) ELSE Untyped(n.exc)

\* The upstream answers with a status and a body.
PostResponds(r) ==
    /\ pc[r] = "awaiting"
    /\ \E status \in StatusesOf(scenario), now \in ClockOf(scenario) :
         \E data \in (IF status >= 400 THEN {EmptyObject} ELSE BodiesOf(client[r], scenario)),
            error \in (IF status >= 400 THEN ErrorsOf(scenario) ELSE {ErrorBody(FALSE, 0)}) :
           /\ resp' = [resp EXCEPT ![r] = [status |-> status, data |-> data, error |-> error]]
           /\ outcome' = [outcome EXCEPT ![r] =
                            AfterResponse(client[r], status, data, error, wire[r], req[r], now)]
           /\ log' = [log EXCEPT ![r] = Append(@, Event("response", status))]
    /\ pc' = [pc EXCEPT ![r] = "ended"]
    /\ UNCHANGED <<env, scenario, constructed, entry, inbound, rid, req, client, wire, path, attempt, reply>>

Next ==
    \E r \in Reqs :
      \/ Arrive(r)
      \/ Route(r)
      \/ Depends(r)
      \/ Handler(r)
      \/ DirectCall(r)
      \/ ChatCompletion(r)
      \/ Post(r)
      \/ PostFails(r)
      \/ PostBreaks(r)
      \/ Wake(r)
      \/ PostResponds(r)
      \/ Finish(r)

Spec == Init /\ [][Next]_vars

\* All requests of Reqs in flight at once, under every interleaving.
SpecConcurrent == InitConcurrent /\ [][Next]_vars

\* The event loop runs a coroutine that is ready, every POST is answered or
\* fails at some time, and every asyncio.sleep comes to its end.
Fairness ==
    \A r \in Reqs :
      /\ WF_vars(ChatCompletion(r))
      /\ WF_vars(Post(r))
      /\ WF_vars(PostFails(r) \/ PostBreaks(r) \/ PostResponds(r))
      /\ WF_vars(Wake(r))

FairSpec == Spec /\ Fairness

(* ------------------------------------------------------------------ *)
(* Properties                                                          *)
(* ------------------------------------------------------------------ *)

\* The number of events of kind ev in the log of request r.
Count(r, ev) == Cardinality({ i \in DOMAIN log[r] : log[r][i].ev = ev })
NumPosts(r) == Count(r, "post")
NumFails(r) == Count(r, "fail")
Budget(r) == client[r].retry_connect_errors

\* chat_completion has ended for request r.
CallEnded(r) == outcome[r].kind # "none"
\* The request matched the chat route of an application, so that its
\* parameters were resolved and a client constructed for it.
ThroughHandler(r) == entry[r] \in Apps /\ client[r].state # "none"

\* C1: if the first N POSTs of a call fail at connection level and POST N+1
\* answers 2xx, with N within the retry budget, the call returns a canonical
\* response built from that answer (on the native codec: its model and its
\* message content) and raises nothing.
C1_SuccessAfterRetries ==
    \A r \in Reqs :
      (entry[r] \in Apps /\ CallEnded(r)
         /\ resp[r].status \in 200..299 /\ NumFails(r) <= Budget(r))
        => /\ outcome[r].kind = "response"
           /\ NumPosts(r) = NumFails(r) + 1
           /\ (client[r].is_ollama /\ ValidStr(resp[r].data.model))
                => outcome[r].response.model = resp[r].data.model.s

\* C1, the state that refutes it: a retried call whose last POST answered 2xx
\* and which nevertheless ended in an exception.
C1_RetriedSuccessRaises ==
    \E r \in Reqs :
      /\ entry[r] \in Apps
      /\ NumFails(r) >= 1 /\ NumFails(r) <= Budget(r)
      /\ resp[r].status \in 200..299
      /\ outcome[r].kind = "untyped"

\* C2: connection-level failures beyond the budget B raise UpstreamTimeout
\* once, after exactly B+1 POSTs and never more; the failure carries the
\* attempt count B+1; no response is returned; with B = 0 the first failure
\* raises without any delay.
C2_TimeoutAfterBudget ==
    \A r \in Reqs :
      /\ NumPosts(r) <= Budget(r) + 1
      /\ NumFails(r) > Budget(r)
           => /\ outcome[r].kind = "timeout"
              /\ NumFails(r) = Budget(r) + 1
      /\ outcome[r].kind = "timeout"
           => /\ NumPosts(r) = Budget(r) + 1
              /\ NumFails(r) = Budget(r) + 1
              /\ outcome[r].attempts = Budget(r) + 1
              /\ outcome[r].response = NoResponse
              /\ Count(r, "response") = 0
              /\ pc[r] = "done" => reply[r].response = NoResponse /\ reply[r].status # 200
      /\ Budget(r) = 0 => Count(r, "sleep") = 0

C2_Witness ==
    \E r \in Reqs :
      /\ outcome[r].kind = "timeout"
      /\ Budget(r) >= 1
      /\ NumPosts(r) = Budget(r) + 1
      /\ pc[r] = "done"

\* C3: a request that reached the handler has its client closed once handling
\* is complete, whether it ended in a response, a typed failure, an untyped
\* error or the stream=true refusal.
C3_ClientClosedOnEveryExit ==
    \A r \in Reqs :
      (pc[r] = "done" /\ ThroughHandler(r) /\ reply[r].status # 422)
        => client[r].state = "closed"

\* C4: for a schema-valid request, chat_completion ends in a canonical
\* response, an UpstreamTimeout or an UpstreamHTTPError; no other exception
\* leaves the call.
C4_OnlyTypedFailures ==
    \A r \in Reqs :
      (entry[r] \in Apps /\ CallEnded(r))
        => outcome[r].kind \in {"response", "timeout", "http_error"}

\* C5: the handler answers a timeout failure with 504 "timeout", an upstream
\* error of status 400..499 with 400 "upstream_4xx", one of status >= 500 with
\* 502 "upstream_5xx"; every upstream error the client raises falls in one of
\* the two classes, decided by the status the upstream sent.
C5_ErrorMapping ==
    \A r \in Reqs :
      (pc[r] = "done" /\ entry[r] \in Apps) =>
        /\ outcome[r].kind = "timeout"
             => reply[r].status = 504 /\ reply[r].type = "timeout"
        /\ outcome[r].kind = "http_error"
             => /\ outcome[r].status_code = resp[r].status
                /\ resp[r].status >= 400
                /\ resp[r].status \in 400..499
                     => reply[r].status = 400 /\ reply[r].type = "upstream_4xx"
                /\ resp[r].status >= 500
                     => reply[r].status = 502 /\ reply[r].type = "upstream_5xx"
        /\ reply[r].type = "upstream_4xx" => resp[r].status \in 400..499
        /\ reply[r].type = "upstream_5xx" => resp[r].status >= 500
        /\ reply[r].type = "timeout" => outcome[r].kind = "timeout"

C5_Witness ==
    \E r \in Reqs :
      /\ pc[r] = "done"
      /\ resp[r].status = 503
      /\ reply[r].status = 502 /\ reply[r].type = "upstream_5xx"

\* C6: an otherwise valid request with stream=true sent to the application
\* get_app builds is answered 400 "bad_request", with no upstream POST.
C6_StreamRefusedByApp ==
    \A r \in Reqs :
      (pc[r] = "done" /\ entry[r] = "get_app"
         /\ RequestValid(inbound[r]) /\ Truthy(inbound[r].stream))
        => /\ reply[r].status = 400
           /\ reply[r].type = "bad_request"
           /\ NumPosts(r) = 0

\* C7: a request to the application get_app builds whose body lacks model or
\* messages, or carries a role outside the three, is answered 422, with no
\* upstream POST.
C7_InvalidBodyRefusedByApp ==
    \A r \in Reqs :
      (pc[r] = "done" /\ entry[r] = "get_app" /\ ~RequestValid(inbound[r]))
        => /\ reply[r].status = 422
           /\ NumPosts(r) = 0

\* C8: a canonical response is produced only from an upstream answer whose
\* status is in 200..299.
C8_OnlySuccessIsNormalized ==
    \A r \in Reqs :
      (entry[r] \in Apps /\ outcome[r].kind = "response")
        => resp[r].status \in 200..299

\* C9: within one call no POST follows an upstream response, every POST after
\* the first directly follows a failed POST and its delay, and a response of
\* status >= 400 raises UpstreamHTTPError with that status at once, whatever
\* budget remains.
C9_StatusFailuresNotRetried ==
    \A r \in Reqs :
      /\ \A i, k \in DOMAIN log[r] :
           (log[r][i].ev = "response" /\ k > i) => log[r][k].ev = "aclose"
      /\ \A i \in DOMAIN log[r] :
           (log[r][i].ev = "post" /\ \E k \in 1..(i - 1) : log[r][k].ev = "post")
             => /\ i > 3
                /\ log[r][i - 1].ev = "wake"
                /\ log[r][i - 2].ev = "sleep"
                /\ log[r][i - 3].ev = "fail"
      /\ Count(r, "response") <= 1
      /\ resp[r].status >= 400
           => /\ outcome[r].kind = "http_error"
              /\ outcome[r].status_code = resp[r].status
              /\ NumPosts(r) = NumFails(r) + 1

C9_Witness ==
    \E r \in Reqs :
      /\ resp[r].status = 503
      /\ outcome[r].kind = "http_error"
      /\ NumFails(r) = 1
      /\ Budget(r) = 2

\* C10: a returned canonical response has at least one choice; on the
\* OpenAI-compatible codec an upstream body whose choices is missing, null or
\* empty gives exactly one choice, index 0, role assistant, empty content,
\* finish-reason "stop"; every returned choice has a finish-reason ("" stands
\* for None).
ChoicesMissing(data) ==
    data.choices.t \in {"absent", "null"} \/ (data.choices.t = "list" /\ Len(data.choices.items) = 0)

C10_NeverZeroChoices ==
    \A r \in Reqs :
      outcome[r].kind = "response" =>
        LET choices == outcome[r].response.choices
        IN  /\ Len(choices) >= 1
            /\ \A i \in 1..Len(choices) : choices[i].finish_reason # ""
            /\ (~client[r].is_ollama /\ ChoicesMissing(resp[r].data))
                 => choices = <<ChatChoice(0, "assistant", "", "stop")>>
            /\ pc[r] = "done" => reply[r].response = outcome[r].response

C10_Witness ==
    \E r \in Reqs :
      /\ ~client[r].is_ollama
      /\ outcome[r].kind = "response"
      /\ resp[r].data.choices.t = "list"
      /\ Len(resp[r].data.choices.items) = 0

\* C11: a request validated by the schema whose max-token value came under the
\* legacy name max_token reaches the wire with that value, as max_tokens on the
\* OpenAI-compatible codec and as options.num_predict on the native codec; on
\* the native codec a value under the current name max_tokens comes first.
PayloadBuilt(r) == pc[r] \in {"post", "awaiting", "sleeping"} \/ CallEnded(r)

C11_LegacyMaxTokenOnWire ==
    \A r \in Reqs :
      /\ (entry[r] \in Apps /\ PayloadBuilt(r) /\ inbound[r].max_token.t = "int")
           => IF client[r].is_ollama
              THEN wire[r].hasOptions /\ wire[r].options.num_predict = inbound[r].max_token
              ELSE wire[r].max_tokens = inbound[r].max_token
      /\ (PayloadBuilt(r) /\ client[r].is_ollama /\ "max_tokens" \in DOMAIN req[r]
            /\ req[r].max_tokens.t = "int")
           => wire[r].options.num_predict = req[r].max_tokens

\* C11, the native codec alone, where the legacy value does reach the wire.
C11_NativeLegacyOnWire ==
    \E r \in Reqs :
      /\ entry[r] \in Apps
      /\ client[r].is_ollama
      /\ inbound[r].max_token = JInt(64)
      /\ wire[r].options.num_predict = JInt(64)

\* C12: on the OpenAI-compatible codec a well-formed 2xx response carrying id,
\* created, choices and usage comes back as a canonical response with the same
\* id, the same created, the same choices (index, assistant content,
\* finish-reason) in the same order, and the same prompt, completion and total
\* token counts.
WellFormedChoice(c) ==
    /\ c.isdict
    /\ c.index.t = "int"
    /\ c.message.t = "dict" /\ c.message.role = JStr("assistant") /\ c.message.content.t = "str"
    /\ c.finish_reason.t = "str"

WellFormedOpenAI(data) ==
    /\ data.json = "object"
    /\ data.id.t = "str" /\ data.id.s # ""
    /\ data.created.t = "int"
    /\ ValidStr(data.object) /\ ValidStr(data.model)
    /\ data.choices.t = "list" /\ Len(data.choices.items) > 0
    /\ \A i \in DOMAIN data.choices.items : WellFormedChoice(data.choices.items[i])
    /\ data.usage.t = "dict"
    /\ \A f \in {"prompt_tokens", "completion_tokens", "total_tokens"} :
         data.usage[f].t = "int" /\ data.usage[f].n >= 0

C12_OpenAIRoundTrip ==
    \A r \in Reqs :
      (~client[r].is_ollama /\ CallEnded(r)
         /\ resp[r].status \in 200..299 /\ WellFormedOpenAI(resp[r].data))
        => LET data == resp[r].data
               out == outcome[r].response
           IN  /\ outcome[r].kind = "response"
               /\ out.id = data.id.s
               /\ out.created = data.created.n
               /\ Len(out.choices) = Len(data.choices.items)
               /\ \A i \in DOMAIN out.choices :
                    /\ out.choices[i].index = data.choices.items[i].index.n
                    /\ out.choices[i].content = data.choices.items[i].message.content.s
                    /\ out.choices[i].finish_reason = data.choices.items[i].finish_reason.s
               /\ out.usage.prompt_token = data.usage.prompt_tokens.n
               /\ out.usage.completion_tokens = data.usage.completion_tokens.n
               /\ out.usage.total_tokens = data.usage.total_tokens.n

\* C12, what does come back unchanged: everything but the prompt-token count.
C12_EchoedExceptPromptCount ==
    \E r \in Reqs :
      /\ ~client[r].is_ollama
      /\ WellFormedOpenAI(resp[r].data) /\ Len(resp[r].data.choices.items) = 2
      /\ outcome[r].kind = "response"
      /\ outcome[r].response.id = resp[r].data.id.s
      /\ outcome[r].response.created = resp[r].data.created.n
      /\ outcome[r].response.choices[2].content = resp[r].data.choices.items[2].message.content.s
      /\ outcome[r].response.usage.total_tokens = resp[r].data.usage.total_tokens.n
      /\ outcome[r].response.usage.prompt_token # resp[r].data.usage.prompt_tokens.n

\* C13: every error response of the front door to a chat-completion request
\* (bad_request, timeout, upstream_4xx, upstream_5xx) carries a request_id: the
\* identifier attached to the request state when there is one, and the
\* placeholder "-" otherwise ("" stands for a body without the field).
ErrorTypes == {"bad_request", "timeout", "upstream_4xx", "upstream_5xx"}

C13_ErrorsCarryRequestId ==
    \A r \in Reqs :
      (pc[r] = "done" /\ reply[r].type \in ErrorTypes)
        => reply[r].request_id = (IF rid[r] # "" THEN rid[r] ELSE "-")

\* C13, the three errors of the try block, which do carry it.
C13_TypedFailureCarriesRequestId ==
    \E r \in Reqs :
      /\ pc[r] = "done"
      /\ reply[r].type = "upstream_4xx"
      /\ rid[r] = "uuid4"
      /\ reply[r].request_id = "uuid4"

\* C14: on the native codec a returned response has created equal to the Unix
\* epoch seconds of a valid ISO-8601 created_at, and 0 when created_at is
\* absent, not a string or unparseable; on the OpenAI-compatible codec a
\* missing or non-numeric created gives the current time, never 0, and a
\* numeric one is kept. Neither codec uses the other's fallback.
IsoInstants == {"2025-11-06T15:10:11Z", "2025-11-06T15:10:11+02:00"}
EpochSecondsOf(s) == IF s = "2025-11-06T15:10:11Z" THEN 1762441811 ELSE 1762434611

C14_TimestampPolicy ==
    \A r \in Reqs :
      outcome[r].kind = "response" =>
        LET created == outcome[r].response.created
            created_at == resp[r].data.created_at
            upstream == resp[r].data.created
        IN  IF client[r].is_ollama
            THEN IF created_at.t = "str" /\ created_at.s \in IsoInstants
                 THEN created = EpochSecondsOf(created_at.s)
                 ELSE created = 0
            ELSE IF upstream.t = "int" THEN created = upstream.n
                 ELSE IF upstream.t = "str" /\ IsNumericStr(upstream.s) THEN created = StrToInt(upstream.s)
                 ELSE created \in Clock /\ created # 0

C14_Witness ==
    \E r \in Reqs :
      /\ client[r].is_ollama
      /\ entry[r] \in Apps
      /\ outcome[r].kind = "response"
      /\ resp[r].data.created_at = JStr("2025-11-06T15:10:11+02:00")
      /\ outcome[r].response.created = 1762434611

\* C15: between the k-th failed POST of a call and POST k+1 there is exactly
\* one delay, of k times 0.2 s (the log counts tenths of a second), so the
\* delays of a call grow strictly; no POST is issued before the delay that
\* precedes it is over; and the failure that exhausts the budget is followed
\* by no delay before the timeout is raised.
FailsUpTo(r, i) == Cardinality({ j \in 1..i : log[r][j].ev = "fail" })
PostsUpTo(r, i) == Cardinality({ j \in 1..i : log[r][j].ev = "post" })

C15_BackoffOrdering ==
    \A r \in Reqs :
      LET L == log[r]
      IN  /\ \A i \in DOMAIN L :
               L[i].ev = "sleep" =>
                 /\ i > 1 /\ L[i - 1].ev = "fail"
                 /\ L[i].n = 2 * FailsUpTo(r, i)
                 /\ FailsUpTo(r, i) = PostsUpTo(r, i)
                 /\ i + 1 <= Len(L) => L[i + 1].ev = "wake"
                 /\ i + 2 <= Len(L) => L[i + 2].ev = "post"
          /\ \A i \in DOMAIN L :
               (L[i].ev = "post" /\ PostsUpTo(r, i) > 1) =>
                 /\ i > 3
                 /\ L[i - 1].ev = "wake" /\ L[i - 2].ev = "sleep" /\ L[i - 3].ev = "fail"
                 /\ FailsUpTo(r, i) = PostsUpTo(r, i) - 1
          /\ \A i, j \in DOMAIN L :
               (i < j /\ L[i].ev = "sleep" /\ L[j].ev = "sleep") => L[i].n < L[j].n
          /\ (pc[r] = "sleeping") <=> (L # <<>> /\ L[Len(L)].ev = "sleep")
          /\ outcome[r].kind = "timeout" =>
               /\ Count(r, "sleep") = NumFails(r) - 1
               /\ \E i \in DOMAIN L :
                    /\ L[i].ev = "fail" /\ L[i].n = NumFails(r)
                    /\ \A j \in DOMAIN L : j > i => L[j].ev = "aclose"

C15_Witness ==
    \E r \in Reqs :
      /\ outcome[r].kind = "timeout"
      /\ NumFails(r) = 3
      /\ \E i, j \in DOMAIN log[r] :
           /\ i < j
           /\ log[r][i] = Event("sleep", 2)
           /\ log[r][j] = Event("sleep", 4)

\* C16: no POST is issued on a client after its aclose; aclose is invoked at
\* most once per client; and every request that reaches the handler's
\* dependency gets a client object constructed for it, never one that was
\* constructed for another request.
C16_NoUseAcrossRelease ==
    \A r \in Reqs :
      LET L == log[r]
      IN  /\ \A i, j \in DOMAIN L : (i < j /\ L[i].ev = "aclose") => L[j].ev # "post"
          /\ Count(r, "aclose") <= 1
          /\ (client[r].state = "closed") <=> (Count(r, "aclose") = 1)
          /\ client[r].state = "closed" => pc[r] = "done"
          /\ pc[r] \in {"post", "awaiting", "sleeping"} => client[r].state = "open"
          /\ client[r].state # "none" =>
               /\ L[1].ev = "construct" /\ Count(r, "construct") = 1
               /\ client[r].id \in 1..constructed
               /\ \A q \in Reqs \ {r} : client[q].state # "none" => client[q].id # client[r].id

C16_Witness ==
    /\ \A r \in Reqs : entry[r] \in Apps /\ client[r].state = "closed" /\ NumPosts(r) >= 1
    /\ client["r1"].id = 2 /\ client["r2"].id = 1
    /\ NumPosts("r1") = 2

\* C17: with two or more requests in flight under any interleaving, each
\* request has a client and an attempt counter of its own: a step of one
\* request changes nothing of another; the failures a request has seen are
\* exactly those counted against its own budget; no client is closed while its
\* own request is still in flight; and the outcome of a call is the one its own
\* exchanges with the upstream determine.
Local(r) ==
    <<pc[r], entry[r], inbound[r], rid[r], req[r], client[r], wire[r], path[r],
      attempt[r], log[r], resp[r], outcome[r], reply[r]>>

InFlight(r) == pc[r] \in {"routed", "handler", "call", "post", "awaiting", "sleeping", "ended"}

OwnOutcome(r) ==
    /\ attempt[r] = NumFails(r)
    /\ NumPosts(r) <= Budget(r) + 1
    /\ InFlight(r) /\ client[r].state # "none" => client[r].state = "open"
    /\ \A q \in Reqs \ {r} : client[r].state # "none" => client[q].id # client[r].id
    /\ outcome[r].kind = "timeout" =>
         /\ NumFails(r) = Budget(r) + 1
         /\ outcome[r].attempts = NumFails(r)
    /\ outcome[r].kind \in {"response", "http_error"} =>
         \E now \in ClockOf(scenario) :
           outcome[r] = AfterResponse(client[r], resp[r].status, resp[r].data, resp[r].error,
                                      wire[r], req[r], now)

C17_Independence ==
    /\ [](\A r \in Reqs : OwnOutcome(r))
    /\ [][\A r, q \in Reqs : (r # q /\ Local(r)' # Local(r)) => Local(q)' = Local(q)]_vars

\* C17: the request whose client was constructed first is still retrying,
\* its budget all but used up, when the other has completed without a failure.
C17_Witness ==
    /\ client["r1"].id = 1 /\ client["r2"].id = 2
    /\ pc["r1"] = "sleeping" /\ NumFails("r1") = 2 /\ Budget("r1") = 2
    /\ pc["r2"] = "done" /\ outcome["r2"].kind = "response" /\ NumFails("r2") = 0
    /\ client["r2"].state = "closed" /\ client["r1"].state = "open"

\* C18: the backend identity of a client is fixed when it is constructed: a
\* configured base URL that starts with ollama:// in any letter case makes the
\* client native, with base URL http://..., and all its POSTs, retries
\* included, go to /api/chat; any other URL makes it OpenAI-compatible, with
\* scheme and host kept, and all its POSTs go to /v1/chat/completions. No
\* client posts to both paths.
PostPaths(r) == { log[r][i].path : i \in { j \in DOMAIN log[r] : log[r][j].ev = "post" } }

CountOr0(v) == IF v.t = "int" THEN v.n ELSE IF v.t = "str" THEN StrToInt(v.s) ELSE 0

C19_UsageAccounting ==
    \A r \in Reqs :
      outcome[r].kind = "response" =>
        LET u == outcome[r].response.usage
            data == resp[r].data
        IN  /\ u.prompt_token >= 0 /\ u.completion_tokens >= 0 /\ u.total_tokens >= 0
            /\ IF client[r].is_ollama
               THEN /\ u.prompt_token = CountOr0(data.prompt_eval_count)
                    /\ u.completion_tokens = CountOr0(data.eval_count)
                    /\ u.total_tokens = u.prompt_token + u.completion_tokens
               ELSE /\ u.prompt_token = CountOr0(data.usage.prompt_tokens)
                    /\ u.completion_tokens = CountOr0(data.usage.completion_tokens)
                    /\ u.total_tokens = IF data.usage.total_tokens.t \in {"absent", "null"}
                                        THEN u.prompt_token + u.completion_tokens
                                        ELSE CountOr0(data.usage.total_tokens)

\* C19, the part that holds on the native codec: the completion count and a
\* total that is the upstream's prompt_eval_count + eval_count.
C19_NativeCompletionAndTotal ==
    \E r \in Reqs :
      /\ entry[r] \in Apps
      /\ client[r].is_ollama
      /\ outcome[r].kind = "response"
      /\ resp[r].data.prompt_eval_count = JInt(23) /\ resp[r].data.eval_count = JInt(54)
      /\ outcome[r].response.usage.completion_tokens = 54
      /\ outcome[r].response.usage.total_tokens = 77
      /\ outcome[r].response.usage.prompt_token = 0

\* C20: when every POST is answered or fails at some time and every backoff
\* delay comes to its end, every chat_completion call ends, with a response or
\* an exception, after at most budget + 1 POSTs, also when the upstream fails
\* at every attempt; and the attempt counter changes only by growing by one at
\* a connection-level failure.
C20_Termination ==
    /\ \A r \in Reqs : (pc[r] = "call") ~> CallEnded(r)
    /\ [](\A r \in Reqs :
            /\ NumPosts(r) <= Budget(r) + 1
            /\ attempt[r] <= Budget(r) + 1
            /\ CallEnded(r) => pc[r] \in {"ended", "done"})
    /\ [][\A r \in Reqs :
            (attempt'[r] # attempt[r] \/ NumFails(r)' # NumFails(r)) =>
              /\ pc[r] = "awaiting"
              /\ attempt'[r] = attempt[r] + 1
              /\ NumFails(r)' = NumFails(r) + 1]_vars

\* C20: the upstream has failed at every attempt and the call has ended.
C20_Witness ==
    \E r \in Reqs :
      /\ Budget(r) = MaxBudget
      /\ NumPosts(r) = MaxBudget + 1 /\ NumFails(r) = NumPosts(r)
      /\ attempt[r] = MaxBudget + 1
      /\ CallEnded(r) /\ pc[r] = "ended"

====
